---- MODULE Spec2Model ----
(***************************************************************************)
(* Model of the Tellow RAG orchestrator (src/rag_system.py, RAGSystem),    *)
(* its configuration (src/config.py) and its two callers: the command-line *)
(* loop (src/main.py) and the Streamlit app (src/app.py).                  *)
(*                                                                         *)
(* Abstractions.  A chunk is represented by its source and by the          *)
(* embedding the provider assigns to its text; embeddings live on a line,  *)
(* at the integer coordinates 0..MaxCoord, so that the L2 distance of two  *)
(* embeddings is the absolute difference of their coordinates.  One        *)
(* coordinate step is 2/MaxCoord, which makes distances range over [0, 2], *)
(* the range of L2 distances between unit vectors.  Similarities are kept  *)
(* as numerators over SimDen.  The answer text of the language model is    *)
(* opaque and is represented by the prompt inputs it was generated from.   *)
(*                                                                         *)
(* The LanceDB vector-store class is a library; the source does not fix    *)
(* two of its behaviours, which are therefore chosen once per run in Init: *)
(*   lib_open_raises  whether LanceDB(connection, embedding, table_name)   *)
(*                    raises when no table of that name exists (what the   *)
(*                    try/except of query expects), or returns a store     *)
(*                    object that has no table (what the library's         *)
(*                    get_table does: it swallows the open_table error);   *)
(*   lib_mode         whether from_documents on an existing table appends  *)
(*                    or overwrites (the library's default mode).          *)
(***************************************************************************)
EXTENDS Integers, Sequences, FiniteSets, TLC

VARIABLES
    lib_open_raises,  \* library behaviour: constructor raises on a missing table
    lib_mode,         \* library behaviour: "append" or "overwrite"
    table,            \* the persisted table Config.TABLE_NAME: [exists, rows]
    vector_store,     \* RAGSystem.vector_store: None or "LanceDB"
    last,             \* the most recent call on the RAGSystem, as observed
    rag_ready,        \* st.session_state["rag_ready"], per session
    messages,         \* st.session_state.messages, per session
    screen            \* what the latest script run of a session rendered

vars == <<lib_open_raises, lib_mode, table, vector_store, last,
          rag_ready, messages, screen>>

----------------------------------------------------------------------------
\* Bounds of the model.

\* Most rows the table may hold (ingestion that would exceed it is not taken).
MaxRows == 5

\* Embedding coordinates are 0..MaxCoord.
MaxCoord == 2

\* Most messages kept in the chat histories of all sessions together.
MaxMessages == 2

----------------------------------------------------------------------------
\* Configuration (src/config.py).

SEARCH_K == 4

----------------------------------------------------------------------------
\* Values.

None == "None"

Sessions == {"s1", "s2"}

GoodSources == {"note.txt", "report.pdf"}

Sources == GoodSources \cup {"bad.xyz"}

\* The questions asked, by the embedding of their text: the two ends of the line.
Questions == {0, MaxCoord}

Max(a, b) == IF a >= b THEN a ELSE b

Min(a, b) == IF a <= b THEN a ELSE b

Abs(a) == IF a >= 0 THEN a ELSE 0 - a

\* L2 distance of two embeddings, in coordinate steps.
Dist(u, v) == Abs(u - v)

\* The chunks Docling conversion and the splitter produce for a source:
\* note.txt is one chunk, report.pdf is SEARCH_K + 1 chunks.
Chunks(source) ==
    IF source = "note.txt"
    THEN << [source |-> source, vector |-> MaxCoord] >>
    ELSE [i \in 1 .. (SEARCH_K + 1) |->
            [source |-> source, vector |-> (2 * i + 1) % (MaxCoord + 1)]]

NoTable == [exists |-> FALSE, rows |-> << >>]

\* No answer: nothing was generated.
NoAnswer == [input |-> 0, context |-> << >>]

NoCall ==
    [op |-> "none", session |-> "none", input |-> 0, pre_handle |-> FALSE,
     pre_ready |-> FALSE, events |-> << >>, outcome |-> "none",
     returned |-> FALSE, answer |-> NoAnswer, context |-> << >>,
     scores |-> << >>, top_k |-> 0]

Count(seq, x) == Cardinality({i \in 1 .. Len(seq) : seq[i] = x})

----------------------------------------------------------------------------
\* The LanceDB library, as RAGSystem uses it.

\* LanceDB(connection, embedding, table_name): the constructor looks the
\* table up.  With the table present it returns a store bound to it.  With
\* the table missing it raises, or returns a store that has no table.
LanceDB(tbl) ==
    IF ~tbl.exists /\ lib_open_raises
    THEN [raised |-> TRUE, store |-> None]
    ELSE [raised |-> FALSE, store |-> "LanceDB"]

\* The table after add_texts has written rows: created on first write,
\* otherwise appended to or overwritten according to the store's mode.
AddRows(tbl, rows) ==
    IF tbl.exists /\ lib_mode = "append"
    THEN [exists |-> TRUE, rows |-> tbl.rows \o rows]
    ELSE [exists |-> TRUE, rows |-> rows]

\* Index of the row of rows nearest to qv (the first one among equals).
NearestIndex(rows, qv) ==
    CHOOSE i \in 1 .. Len(rows) :
        \A j \in 1 .. Len(rows) :
            \/ Dist(rows[i].vector, qv) < Dist(rows[j].vector, qv)
            \/ Dist(rows[i].vector, qv) = Dist(rows[j].vector, qv) /\ i <= j

Without(seq, i) == SubSeq(seq, 1, i - 1) \o SubSeq(seq, i + 1, Len(seq))

\* The k nearest rows by L2 distance, nearest first, as (doc, score) pairs.
RECURSIVE Nearest(_, _, _)
Nearest(rows, qv, k) ==
    IF k = 0 \/ rows = << >>
    THEN << >>
    ELSE LET i == NearestIndex(rows, qv)
         IN  << [doc |-> rows[i], score |-> Dist(rows[i].vector, qv)] >>
             \o Nearest(Without(rows, i), qv, k - 1)

\* vector_store.similarity_search_with_score(question, k): embeds the
\* question, then searches the store's table.  The embedding call can fail;
\* a store without a table fails in the search.
similarity_search_with_score(tbl, question, k, fail) ==
    IF fail = "retrieve"
    THEN [ok |-> FALSE, error |-> "RetrievalError", pairs |-> << >>]
    ELSE IF ~tbl.exists
    THEN [ok |-> FALSE, error |-> "SearchError", pairs |-> << >>]
    ELSE [ok |-> TRUE, error |-> "none",
          pairs |-> Nearest(tbl.rows, question, k)]

----------------------------------------------------------------------------
\* RAGSystem (src/rag_system.py).

\* load_documents(source): conversion, then splitting.
load_documents(source, fail) ==
    IF source \notin GoodSources \/ fail = "convert"
    THEN [ok |-> FALSE, error |-> "ConversionError",
          events |-> << "convert" >>, documents |-> << >>]
    ELSE IF fail = "split"
    THEN [ok |-> FALSE, error |-> "SplitError",
          events |-> << "convert", "split" >>, documents |-> << >>]
    ELSE [ok |-> TRUE, error |-> "none",
          events |-> << "convert", "split" >>, documents |-> Chunks(source)]

\* LanceDB.from_documents(documents, embeddings, connection, table_name):
\* batch-embeds the chunks, then writes the rows in one commit.
from_documents(tbl, documents, fail) ==
    IF fail = "embed"
    THEN [ok |-> FALSE, error |-> "EmbeddingError",
          events |-> << "embed_documents" >>, table |-> tbl]
    ELSE IF fail = "write"
    THEN [ok |-> FALSE, error |-> "WriteError",
          events |-> << "embed_documents", "write" >>, table |-> tbl]
    ELSE [ok |-> TRUE, error |-> "none",
          events |-> << "embed_documents", "write" >>,
          table |-> AddRows(tbl, documents)]

\* setup_vector_store that takes the handle before the indexing has ended.
setup_vector_store_eager(vs, tbl, documents, fail) ==
    LET r == from_documents(tbl, documents, fail)
    IN  [ok |-> r.ok, error |-> r.error, events |-> r.events,
         table |-> r.table, vector_store |-> "LanceDB"]

\* setup_vector_store(documents): the handle is assigned from the value
\* from_documents returns, so only when it returns.
setup_vector_store(vs, tbl, documents, fail) ==
    LET r == from_documents(tbl, documents, fail)
    IN  [ok |-> r.ok, error |-> r.error, events |-> r.events,
         table |-> r.table,
         vector_store |-> IF r.ok THEN "LanceDB" ELSE vs]

\* The callers' sequence load_documents(source); setup_vector_store(docs).
load_and_index(vs, tbl, source, fail) ==
    LET d == load_documents(source, fail)
        s == setup_vector_store(vs, tbl, d.documents, fail)
    IN  IF ~d.ok
        THEN [ok |-> FALSE, error |-> d.error, events |-> d.events,
              table |-> tbl, vector_store |-> vs]
        ELSE [ok |-> s.ok, error |-> s.error, events |-> d.events \o s.events,
              table |-> s.table, vector_store |-> s.vector_store]

\* The reopen that keeps its result in a local and leaves the field unset.
ensure_vector_store_local(vs, tbl) ==
    IF vs # None
    THEN [vector_store |-> vs, events |-> << >>, raised |-> FALSE]
    ELSE [vector_store |-> vs, events |-> << "reopen" >>,
          raised |-> LanceDB(tbl).raised]

\* The head of query and of get_rag_chain: with no handle, one attempt to
\* open the existing table, its exception swallowed; still no handle raises
\* ValueError("Vector store not initialized. Load documents first.").
ensure_vector_store(vs, tbl) ==
    IF vs # None
    THEN [vector_store |-> vs, events |-> << >>, raised |-> FALSE]
    ELSE LET o == LanceDB(tbl)
             vs1 == IF o.raised THEN vs ELSE o.store
         IN  [vector_store |-> vs1, events |-> << "reopen" >>,
              raised |-> (vs1 = None)]

k_value_short == SEARCH_K - 1

\* k_value = Config.SEARCH_K
k_value == SEARCH_K

\* A retrieval that is tried a second time when it fails.
retrieve_retry(tbl, question, fail) ==
    LET r == similarity_search_with_score(tbl, question, k_value, fail)
    IN  IF r.ok
        THEN [ok |-> TRUE, error |-> "none", events |-> << "retrieve" >>,
              pairs |-> r.pairs]
        ELSE [ok |-> FALSE, error |-> r.error,
              events |-> << "retrieve", "retrieve" >>, pairs |-> << >>]

\* Step 1 of query: one call of similarity_search_with_score.
retrieve(tbl, question, fail) ==
    LET r == similarity_search_with_score(tbl, question, k_value, fail)
    IN  [ok |-> r.ok, error |-> r.error, events |-> << "retrieve" >>,
         pairs |-> r.pairs]

\* docs = [doc for doc, score in docs_and_scores]
unpack_docs(pairs) == [i \in 1 .. Len(pairs) |-> pairs[i].doc]

unpack_scores_reversed(pairs) ==
    [i \in 1 .. Len(pairs) |-> pairs[Len(pairs) + 1 - i].score]

\* scores = [score for doc, score in docs_and_scores]
unpack_scores(pairs) == [i \in 1 .. Len(pairs) |-> pairs[i].score]

\* Step 3 of query: one call of document_chain.invoke.
generate(question, docs, fail) ==
    IF fail = "generate"
    THEN [ok |-> FALSE, error |-> "GenerationError",
          events |-> << "generate" >>, answer |-> NoAnswer]
    ELSE [ok |-> TRUE, error |-> "none",
          events |-> << "generate" >>,
          answer |-> [input |-> question, context |-> docs]]

Raised(vs, events, error) ==
    [vector_store |-> vs, events |-> events, outcome |-> error,
     returned |-> FALSE, answer |-> NoAnswer, context |-> << >>,
     scores |-> << >>, top_k |-> 0]

\* query(question)
query(vs, tbl, question, fail) ==
    LET e == ensure_vector_store(vs, tbl)
        r == retrieve(tbl, question, fail)
        docs == unpack_docs(r.pairs)
        scores == unpack_scores(r.pairs)
        g == generate(question, docs, fail)
    IN  IF e.raised
        THEN Raised(e.vector_store, e.events, "NotReady")
        ELSE IF ~r.ok
        THEN Raised(e.vector_store, e.events \o r.events, r.error)
        ELSE IF ~g.ok
        THEN Raised(e.vector_store, e.events \o r.events \o g.events, g.error)
        ELSE [vector_store |-> e.vector_store,
              events |-> e.events \o r.events \o g.events,
              outcome |-> "ok", returned |-> TRUE, answer |-> g.answer,
              context |-> docs, scores |-> scores, top_k |-> k_value]

\* get_rag_chain(): the same head, then the chain is built and returned.
get_rag_chain(vs, tbl) ==
    LET e == ensure_vector_store(vs, tbl)
    IN  IF e.raised
        THEN Raised(e.vector_store, e.events, "NotReady")
        ELSE [vector_store |-> e.vector_store, events |-> e.events,
              outcome |-> "ok", returned |-> TRUE, answer |-> NoAnswer,
              context |-> << >>, scores |-> << >>, top_k |-> k_value]

\* The record of a call, as last keeps it.
Call(op, session, input, r) ==
    [op |-> op, session |-> session, input |-> input,
     pre_handle |-> (vector_store # None),
     pre_ready |-> (IF session \in Sessions THEN rag_ready[session] ELSE FALSE),
     events |-> r.events, outcome |-> r.outcome, returned |-> r.returned,
     answer |-> r.answer, context |-> r.context, scores |-> r.scores,
     top_k |-> r.top_k]

LoadResult(r) ==
    Raised(r.vector_store, r.events, IF r.ok THEN "ok" ELSE r.error)

\* The trace of a call without its result, which the app keeps in messages.
Trace(r) == Raised(r.vector_store, r.events, r.outcome)

LoadFails == {"none", "convert", "split", "embed", "write"}

QueryFails == {"none", "retrieve", "generate"}

----------------------------------------------------------------------------
\* The orchestrator driven directly (src/main.py and any other caller).

Init ==
    /\ lib_open_raises \in BOOLEAN
    /\ lib_mode \in {"append", "overwrite"}
    /\ table \in {NoTable, [exists |-> TRUE, rows |-> Chunks("note.txt")]}
    /\ vector_store = None
    /\ last = NoCall
    /\ rag_ready = [s \in Sessions |-> FALSE]
    /\ messages = [s \in Sessions |-> << >>]
    /\ screen = [s \in Sessions |-> [history |-> << >>, fresh |-> << >>]]

\* main.py lines 16-17: rag.load_documents(source); rag.setup_vector_store(..)
LoadAndIndex(source, fail) ==
    LET r == load_and_index(vector_store, table, source, fail)
    IN  /\ Len(r.table.rows) <= MaxRows
        /\ table' = r.table
        /\ vector_store' = r.vector_store
        /\ last' = Call("load", "none", source, LoadResult(r))
        /\ UNCHANGED <<lib_open_raises, lib_mode, rag_ready, messages, screen>>

\* main.py line 28: rag.query(query)
Query(question, fail) ==
    LET r == query(vector_store, table, question, fail)
    IN  /\ vector_store' = r.vector_store
        /\ last' = Call("query", "none", question, r)
        /\ UNCHANGED <<lib_open_raises, lib_mode, table, rag_ready, messages,
                       screen>>

GetRagChain ==
    LET r == get_rag_chain(vector_store, table)
    IN  /\ vector_store' = r.vector_store
        /\ last' = Call("chain", "none", 0, r)
        /\ UNCHANGED <<lib_open_raises, lib_mode, table, rag_ready, messages,
                       screen>>

Next ==
    \/ \E source \in Sources, fail \in LoadFails : LoadAndIndex(source, fail)
    \/ \E question \in Questions, fail \in QueryFails : Query(question, fail)
    \/ GetRagChain

Spec == Init /\ [][Next]_vars

----------------------------------------------------------------------------
\* The Streamlit app (src/app.py).  One RAGSystem serves every session
\* (st.cache_resource); rag_ready and messages are per session.  Each action
\* is one run of the script for one session.

\* Denominator of the similarities: a score of n steps is the distance
\* 2n/MaxCoord, so 1 - d^2/2 is (MaxCoord^2 - 2n^2) / MaxCoord^2.
SimDen == MaxCoord * MaxCoord

sim_score_unclamped(score) == SimDen - 2 * score * score

\* Response rendering: sim_score = max(0, 1 - (score**2 / 2))
sim_score_response(score) == Max(0, SimDen - 2 * score * score)

\* History rendering: sim_score = max(0, 1 - (score**2 / 2))
sim_score_history(score) == Max(0, SimDen - 2 * score * score)

\* f"{sim_score:.1%}": tenths of a percent, rounded half to even.
percent1(num) ==
    LET n == 1000 * num
        q == n \div SimDen
        r == n % SimDen
    IN  IF 2 * r > SimDen \/ (2 * r = SimDen /\ q % 2 = 1) THEN q + 1 ELSE q

\* if not scores: scores = [0.0] * len(context_docs)
scores_or_zero(scores, n) ==
    IF scores = << >> THEN [i \in 1 .. n |-> 0] ELSE scores

UserMessage(prompt) ==
    [role |-> "user", content |-> prompt, has_metrics |-> FALSE,
     sources |-> << >>, scores |-> << >>, top_k |-> 0, contexts |-> << >>]

\* The assistant message appended to the history, with its metrics.
AssistantMessage(r) ==
    [role |-> "assistant", content |-> r.answer, has_metrics |-> TRUE,
     sources |-> [i \in 1 .. Len(r.context) |-> r.context[i].source],
     scores |-> scores_or_zero(r.scores, Len(r.context)),
     top_k |-> r.top_k,
     contexts |-> [i \in 1 .. Len(r.context) |-> r.context[i].vector]]

\* The top-1 line of a fresh response: zip(context_docs, scores), first pair.
render_response(r) ==
    LET scores == scores_or_zero(r.scores, Len(r.context))
    IN  IF Len(r.context) = 0
        THEN << >>
        ELSE << [score |-> scores[1],
                 sim |-> sim_score_response(scores[1]),
                 text |-> percent1(sim_score_response(scores[1]))] >>

\* The top-1 line of one message of the history, if it carries metrics.
render_message(m) ==
    LET scores == scores_or_zero(m.scores, Len(m.sources))
    IN  IF ~m.has_metrics \/ Len(m.sources) = 0 \/ Len(m.contexts) = 0
        THEN << >>
        ELSE << [score |-> scores[1],
                 sim |-> sim_score_history(scores[1]),
                 text |-> percent1(sim_score_history(scores[1]))] >>

\* for message in st.session_state.messages: ... (one entry per message)
render_history(msgs) == [i \in 1 .. Len(msgs) |-> render_message(msgs[i])]

\* The Load Document button with a source given.
ClickLoad(s, source, fail) ==
    LET r == load_and_index(vector_store, table, source, fail)
    IN  /\ Len(r.table.rows) <= MaxRows
        /\ table' = r.table
        /\ vector_store' = r.vector_store
        /\ last' = Call("load", s, source, LoadResult(r))
        /\ rag_ready' = IF r.ok THEN [rag_ready EXCEPT ![s] = TRUE]
                        ELSE rag_ready
        /\ screen' = [screen EXCEPT ![s] =
                        [history |-> render_history(messages[s]),
                         fresh |-> << >>]]
        /\ UNCHANGED <<lib_open_raises, lib_mode, messages>>

\* The Load Document button with neither an upload nor a URL: a warning.
ClickLoadNoSource(s) ==
    /\ screen' = [screen EXCEPT ![s] =
                    [history |-> render_history(messages[s]),
                     fresh |-> << >>]]
    /\ UNCHANGED <<lib_open_raises, lib_mode, table, vector_store, last,
                   rag_ready, messages>>

\* A chat input while the session's rag_ready is unset: an error, return.
ChatNotReady(s, prompt) ==
    /\ ~rag_ready[s]
    /\ screen' = [screen EXCEPT ![s] =
                    [history |-> render_history(messages[s]),
                     fresh |-> << >>]]
    /\ UNCHANGED <<lib_open_raises, lib_mode, table, vector_store, last,
                   rag_ready, messages>>

RECURSIVE TotalMessages(_)
TotalMessages(S) ==
    IF S = {} THEN 0
    ELSE LET s == CHOOSE x \in S : TRUE
         IN  Len(messages[s]) + TotalMessages(S \ {s})

\* The chat handler past the rag_ready check: the user message is appended,
\* rag.query runs, and on success the answer is rendered and appended with
\* its metrics; an exception is shown as an error.
chat_respond(s, prompt, fail) ==
    LET r == query(vector_store, table, prompt, fail)
    IN  /\ TotalMessages(Sessions) + 2 <= MaxMessages
        /\ vector_store' = r.vector_store
        /\ last' = Call("query", s, prompt, Trace(r))
        /\ messages' = [messages EXCEPT ![s] =
                          IF r.returned
                          THEN @ \o << UserMessage(prompt), AssistantMessage(r) >>
                          ELSE @ \o << UserMessage(prompt) >>]
        /\ screen' = [screen EXCEPT ![s] =
                        [history |-> render_history(messages[s]),
                         fresh |-> IF r.returned THEN render_response(r)
                                   ELSE << >>]]
        /\ UNCHANGED <<lib_open_raises, lib_mode, table, rag_ready>>

\* A chat input answered without the rag_ready check.
ChatInputUnchecked(s, prompt, fail) == chat_respond(s, prompt, fail)

\* A chat input while the session's rag_ready is set.
ChatInput(s, prompt, fail) ==
    /\ rag_ready[s]
    /\ chat_respond(s, prompt, fail)

NextApp ==
    \/ \E s \in Sessions, source \in Sources, fail \in LoadFails :
          ClickLoad(s, source, fail)
    \/ \E s \in Sessions : ClickLoadNoSource(s)
    \/ \E s \in Sessions, prompt \in Questions : ChatNotReady(s, prompt)
    \/ \E s \in Sessions, prompt \in Questions, fail \in QueryFails :
          ChatInput(s, prompt, fail)

SpecApp == Init /\ [][NextApp]_vars

----------------------------------------------------------------------------
\* Properties.

IsQuery == last.op = "query"

Retrievals == Count(last.events, "retrieve")

Generations == Count(last.events, "generate")

Reopens == Count(last.events, "reopen")

\* C1: a query on a fresh RAGSystem (no handle) whose storage holds no table
\* fails with the not-ready error, and neither retrieval nor generation is
\* invoked.
C1_FreshEmptyQueryNotReady ==
    (IsQuery /\ ~last.pre_handle /\ ~table.exists)
        => (last.outcome = "NotReady" /\ Retrievals = 0 /\ Generations = 0)

\* C2: an ingestion call that fails at any stage leaves the table's rows and
\* the vector_store handle exactly as they were before the call.
C2_FailedIngestionChangesNothing ==
    [][(last'.op = "load" /\ last'.outcome # "ok")
          => (table' = table /\ vector_store' = vector_store)]_vars

C2_Witness ==
    /\ last.op = "load"
    /\ last.outcome = "EmbeddingError"
    /\ last.events = << "convert", "split", "embed_documents" >>
    /\ table.exists
    /\ vector_store = None

\* C3: a successful ingestion call only adds rows: the rows present before
\* it are still there, in place, and the table grows by the call's chunk
\* count.
C3_TableAppendOnly ==
    [][(last'.op = "load" /\ last'.outcome = "ok")
          => /\ Len(table'.rows) = Len(table.rows) + Len(Chunks(last'.input))
             /\ SubSeq(table'.rows, 1, Len(table.rows)) = table.rows]_vars

\* C4: the handle becomes present only by a successful setup_vector_store or
\* by a successful reopen of an existing table, each of these makes it
\* present, and once present it stays present.
C4_HandleIffIndexed ==
    [][/\ (vector_store = None /\ vector_store' # None)
             => \/ last'.op = "load" /\ last'.outcome = "ok"
                \/ /\ last'.op \in {"query", "chain"}
                   /\ Count(last'.events, "reopen") = 1
                   /\ table.exists
       /\ (last'.op = "load" /\ last'.outcome = "ok") => vector_store' # None
       /\ (last'.op \in {"query", "chain"} /\ table.exists)
             => vector_store' # None
       /\ (vector_store # None) => (vector_store' # None)]_vars

\* C5: a query with no handle and a persisted table makes exactly one reopen
\* attempt, converts and batch-embeds nothing, goes on to retrieval (and to
\* generation when retrieval succeeds) and leaves the handle present; a
\* query that starts with the handle present makes no reopen attempt.
C5_ReopenOnceThenIndexed ==
    /\ (IsQuery /\ ~last.pre_handle /\ table.exists)
          => /\ Reopens = 1
             /\ Count(last.events, "convert") = 0
             /\ Count(last.events, "embed_documents") = 0
             /\ Len(last.events) >= 2
             /\ last.events[1] = "reopen"
             /\ last.events[2] = "retrieve"
             /\ (last.outcome # "RetrievalError" => Generations = 1)
             /\ last.outcome # "NotReady"
             /\ vector_store # None
    /\ (IsQuery /\ last.pre_handle) => (Reopens = 0 /\ vector_store # None)

C5_Witness ==
    /\ IsQuery
    /\ ~last.pre_handle
    /\ table.exists
    /\ last.events = << "reopen", "retrieve", "generate" >>
    /\ last.outcome = "ok"
    /\ vector_store # None

\* C6: one query invokes retrieval at most once and generation at most once,
\* retrieval before generation; a failure of either is the call's outcome,
\* generation is not invoked after a failed retrieval, and a failed call
\* returns no result.
C6_SingleAttemptNoPartialResult ==
    IsQuery =>
        /\ Retrievals <= 1
        /\ Generations <= 1
        /\ \A i, j \in 1 .. Len(last.events) :
              (last.events[i] = "generate" /\ last.events[j] = "retrieve")
                  => j < i
        /\ Generations = 1 => Retrievals = 1
        /\ last.outcome \in {"RetrievalError", "SearchError"}
              => (Retrievals = 1 /\ Generations = 0)
        /\ last.outcome = "GenerationError"
              => (Retrievals = 1 /\ Generations = 1)
        /\ last.returned <=> last.outcome = "ok"
        /\ ~last.returned
              => /\ last.answer = NoAnswer
                 /\ last.context = << >>
                 /\ last.scores = << >>
                 /\ last.top_k = 0

C6_Witness ==
    /\ IsQuery
    /\ last.outcome = "GenerationError"
    /\ last.events = << "retrieve", "generate" >>
    /\ ~last.returned

\* C7: a successful query returns its scores in ascending order, each score
\* is the distance of the document at the same position, and generation was
\* given the documents in that same order.
C7_ScoresAscendingAndPaired ==
    (IsQuery /\ last.returned) =>
        /\ Len(last.scores) = Len(last.context)
        /\ \A i \in 1 .. Len(last.scores) - 1 :
              last.scores[i] <= last.scores[i + 1]
        /\ \A i \in 1 .. Len(last.scores) :
              last.scores[i] = Dist(last.context[i].vector, last.input)
        /\ last.answer.context = last.context

C7_Witness ==
    /\ IsQuery
    /\ last.returned
    /\ Len(last.scores) >= 3
    /\ last.scores[1] < last.scores[Len(last.scores)]
    /\ table.rows[1].vector # last.context[1].vector

\* C8: a successful query against a table of n >= 1 rows returns exactly
\* min(SEARCH_K, n) pairs, and its top_k is SEARCH_K whatever the question.
C8_ResultSizeIsMinKN ==
    (IsQuery /\ last.returned /\ Len(table.rows) >= 1) =>
        /\ Len(last.scores) = Min(SEARCH_K, Len(table.rows))
        /\ Len(last.context) = Min(SEARCH_K, Len(table.rows))
        /\ last.top_k = SEARCH_K

C8_Witness ==
    /\ IsQuery
    /\ last.returned
    /\ Len(table.rows) > SEARCH_K
    /\ Len(last.scores) = SEARCH_K

\* The lines a session's latest run shows: the fresh one and the history's.
Shown(s) ==
    {screen[s].fresh[i] : i \in 1 .. Len(screen[s].fresh)}
        \cup UNION {{screen[s].history[j][i] : i \in 1 .. Len(screen[s].history[j])}
                       : j \in 1 .. Len(screen[s].history)}

\* C9: every similarity the app shows, for a fresh response or from the
\* history, is max(0, 1 - d^2/2) of the distance shown with it and lies in
\* [0, 1]; and the history rendering of a stored response shows what the
\* fresh rendering of it showed.
C9_SimilarityClampedSameInHistory ==
    \A s \in Sessions :
        /\ \A e \in Shown(s) :
              /\ e.sim >= 0
              /\ e.sim <= SimDen
              /\ e.sim = (IF 2 * e.score * e.score <= SimDen
                          THEN SimDen - 2 * e.score * e.score ELSE 0)
              /\ e.text >= 0
              /\ e.text <= 1000
        /\ screen[s].fresh # << >>
              => render_message(messages[s][Len(messages[s])]) = screen[s].fresh

C9_Witness ==
    \E s \in Sessions :
        \E j \in 1 .. Len(screen[s].history) :
            /\ screen[s].history[j] # << >>
            /\ screen[s].history[j][1].score = MaxCoord
            /\ screen[s].history[j][1].sim = 0

\* C10: a session whose rag_ready is set sees the shared handle present;
\* rag_ready is set only by that session's successful load and index, and is
\* never cleared; rag.query is invoked only from a session whose rag_ready is
\* set, with the handle present, so it makes no reopen attempt and never
\* fails as not ready.
C10_ReadyImpliesHandle ==
    /\ [](/\ \A s \in Sessions : rag_ready[s] => vector_store # None
          /\ IsQuery => /\ last.session \in Sessions
                        /\ last.pre_ready
                        /\ last.pre_handle
                        /\ Reopens = 0
                        /\ last.outcome # "NotReady")
    /\ [][\A s \in Sessions :
             /\ rag_ready[s] => rag_ready'[s]
             /\ (~rag_ready[s] /\ rag_ready'[s])
                   => /\ last'.op = "load"
                      /\ last'.session = s
                      /\ last'.outcome = "ok"]_vars

C10_Witness ==
    \E s, t \in Sessions :
        /\ rag_ready[s]
        /\ ~rag_ready[t]
        /\ IsQuery
        /\ last.session = s
        /\ last.outcome = "ok"

====
